---- MODULE Spec2Model ----
(***************************************************************************)
(* Model of scripts/update_telegram_feed.py: the paginated crawl           *)
(* (fetch_latest_posts), the translation cache merge (build_feed), the     *)
(* feed writer (write_json) and the driver (main).                         *)
(*                                                                         *)
(* Strings are sequences of one-character strings.  NL is "\n", SP is " ". *)
(* Python's None is the one-element sequence None, which no string of the  *)
(* model equals.  SHA-256 is taken to be injective: a digest is modelled   *)
(* by the byte sequence fed to it.                                         *)
(***************************************************************************)
EXTENDS Integers, Sequences, FiniteSets, TLC

VARIABLES
  pc,          \* position of main: "start", "load", "fetch", "merge", "write", ...
  args,        \* parsed command line and environment of the current run
  content,     \* the channel: content of the post with each id
  served,      \* the channel: page served for each request cursor (Unset: not yet asked)
  disk,        \* file at args.out (Absent or a file)
  tmp,         \* file at args.out + ".tmp"
  existing,    \* main: result of load_existing_feed
  before,      \* fetch_latest_posts: cursor
  seen,        \* fetch_latest_posts: keys already collected
  collected,   \* fetch_latest_posts: posts accumulated
  nfetch,      \* number of page requests issued by this call of fetch_latest_posts
  reqs,        \* cursors carried by the requests issued, in order
  pagesGot,    \* pages returned to this call, in order
  posts,       \* main: result of fetch_latest_posts
  out_posts,   \* build_feed: entries emitted so far
  tcalls,      \* message ids for which the translation backend was called, in order
  feed,        \* main: result of build_feed
  run,         \* number of runs started
  hist,        \* what the previous run saw: used to compare two successive runs
  now,         \* the wall clock, in seconds
  generated_at_utc,  \* main: "generated_at_utc" of the feed build_feed returned
  answers,     \* what the backend answered for each post since the posts were fetched
  attempts,    \* openai_responses_text: requests that failed in the call under way
  translated   \* history: what the backends were given and answered, in all runs

vars == <<pc, args, content, served, disk, tmp, existing, before, seen, collected,
          nfetch, reqs, pagesGot, posts, out_posts, tcalls, feed, run, hist,
          now, generated_at_utc, answers, attempts, translated>>

----------------------------------------------------------------------------
(* Bounds *)

MaxId == 2
MaxPageLen == 3
MaxLimit == 2
MaxPages == 2
MaxRuns == 2
MaxPosts == 2
MaxPipePageLen == 1
MaxClock == 1
MaxImages == 2
MaxEdits == 1

Ids == 0..MaxId

----------------------------------------------------------------------------
(* Strings *)

NL == "\n"
SP == " "
None == <<"None">>
NoCursor == -1
Unset == <<-1>>
Absent == [kind |-> "absent"]

IsStr(v) == v # None

IsSpace(ch) == ch \in {NL, SP}

RECURSIVE LStrip(_)
LStrip(s) == IF s # <<>> /\ IsSpace(Head(s)) THEN LStrip(Tail(s)) ELSE s

RECURSIVE RStrip(_)
RStrip(s) ==
  IF s # <<>> /\ IsSpace(s[Len(s)]) THEN RStrip(SubSeq(s, 1, Len(s) - 1)) ELSE s

\* str.strip()
Strip(s) == RStrip(LStrip(s))

RECURSIVE Concat(_)
Concat(ss) == IF ss = <<>> THEN <<>> ELSE Head(ss) \o Concat(Tail(ss))

RECURSIVE Join(_, _)
Join(sep, ss) ==
  IF ss = <<>> THEN <<>>
  ELSE IF Len(ss) = 1 THEN Head(ss)
  ELSE Head(ss) \o sep \o Join(sep, Tail(ss))

RECURSIVE SkipNL(_, _)
SkipNL(s, i) == IF i <= Len(s) /\ s[i] = NL THEN SkipNL(s, i + 1) ELSE i

RECURSIVE SplitFrom(_, _, _, _)
SplitFrom(s, i, cur, acc) ==
  IF i > Len(s) THEN Append(acc, cur)
  ELSE IF s[i] = NL /\ i + 1 <= Len(s) /\ s[i + 1] = NL
       THEN SplitFrom(s, SkipNL(s, i), <<>>, Append(acc, cur))
       ELSE SplitFrom(s, i + 1, Append(cur, s[i]), acc)

\* re.split(r"\n{2,}", s)
SplitParas(s) == SplitFrom(s, 1, <<>>, <<>>)

SelectNonEmpty(ss) == SelectSeq(ss, LAMBDA x : x # <<>>)

----------------------------------------------------------------------------
(* TgPost *)

\* The contents a post of the model channel may have.  The first two differ
\* (text "a\n\nc" without images, text "a" with the image "c"); the third is
\* an image-only post.
Contents ==
  << [text_ru |-> <<"a", NL, NL, "c">>, date_utc |-> None, images |-> <<>>],
     [text_ru |-> <<"a">>,              date_utc |-> None, images |-> << <<"c">> >>],
     [text_ru |-> <<>>,                 date_utc |-> None, images |-> << <<"c">> >>] >>

NContents == Len(Contents)

\* the channel at the start: the posts take the contents in turn
InitContent == [i \in 0..MaxId |-> (i % NContents) + 1]

TgPost(id, c) ==
  [message_id |-> id, date_utc |-> c.date_utc, text_ru |-> c.text_ru, images |-> c.images]

\* TgPost.key: the channel is the same for every post of a run
key(p) == p.message_id

\* TgPost.content_hash: the bytes fed to the digest
content_hash(p) ==
  p.text_ru \o <<NL>> \o (IF IsStr(p.date_utc) THEN p.date_utc ELSE <<>>)
    \o (IF p.images # <<>>
        THEN <<NL>> \o Concat([i \in 1..Len(p.images) |-> p.images[i] \o <<NL>>])
        ELSE <<>>)

----------------------------------------------------------------------------
(* fetch_latest_posts *)

Translators == {"auto", "openai", "argos", "none"}
Models == {"gpt-5.2", "gpt-4o"}

\* A page as parse_preview_html returns it: the ids of its posts, in page order
RECURSIVE SeqsUpTo(_, _)
SeqsUpTo(S, n) ==
  IF n = 0 THEN {<<>>}
  ELSE LET shorter == SeqsUpTo(S, n - 1)
       IN shorter \cup {Append(s, x) : s \in {t \in shorter : Len(t) = n - 1}, x \in S}

Pages == SeqsUpTo(Ids, MaxPageLen)

Cursors == {NoCursor} \cup Ids

ids_of(ps) == [i \in 1..Len(ps) |-> ps[i].message_id]

Range(s) == {s[i] : i \in 1..Len(s)}

\* the "?before=" part of the request: f"?before={before}" if before else ""
url_cursor(b) == IF b # NoCursor /\ b # 0 THEN b ELSE NoCursor

\* a loop that forgets its iteration limit
loop_exhausted_never(n, max_pages) == FALSE

\* for _ in range(max_pages): no iteration is left after n requests
loop_exhausted(n, max_pages) == n >= max_pages

\* a loop over page_posts that collects every post, seen or not
dedup_off(page_posts, sn, coll, n) ==
  [seen |-> sn \cup {key(page_posts[i]) : i \in 1..Len(page_posts)},
   collected |-> coll \o page_posts, new_in_page |-> Len(page_posts)]

\* the loop over page_posts: skip seen keys, collect the rest
RECURSIVE dedup(_, _, _, _)
dedup(page_posts, sn, coll, n) ==
  IF page_posts = <<>> THEN [seen |-> sn, collected |-> coll, new_in_page |-> n]
  ELSE LET p == Head(page_posts)
       IN IF key(p) \in sn
          THEN dedup(Tail(page_posts), sn, coll, n)
          ELSE dedup(Tail(page_posts), sn \cup {key(p)}, Append(coll, p), n + 1)

SeqMin(s) == CHOOSE m \in Range(s) : \A x \in Range(s) : m <= x

\* insertion into a sequence sorted by message_id, descending, after equal ids
RECURSIVE insert_desc(_, _)
insert_desc(p, s) ==
  IF s = <<>> THEN <<p>>
  ELSE IF Head(s).message_id >= p.message_id
       THEN <<Head(s)>> \o insert_desc(p, Tail(s))
       ELSE <<p>> \o s

\* collected.sort(key=lambda p: p.message_id, reverse=True): a stable sort
RECURSIVE sort_desc(_)
sort_desc(s) ==
  IF s = <<>> THEN <<>>
  ELSE insert_desc(s[Len(s)], sort_desc(SubSeq(s, 1, Len(s) - 1)))

\* a truncation that keeps the tail: collected[-limit:]
take_last(s, n) == SubSeq(s, IF Len(s) < n THEN 1 ELSE Len(s) - n + 1, Len(s))

\* collected[:limit]
take(s, n) == SubSeq(s, 1, IF Len(s) < n THEN Len(s) ELSE n)

\* a loop that never looks at the number of posts it has
limit_reached_never(n, limit) == FALSE

\* len(collected) >= limit
limit_reached(n, limit) == n >= limit

\* One iteration of the loop of fetch_latest_posts on the page the channel
\* serves; when the loop ends with it, the sort and the truncation as well.
FetchPage(page) ==
  LET page_posts == [i \in 1..Len(page) |-> TgPost(page[i], Contents[content[page[i]]])]
      d == dedup(page_posts, seen, collected, 0)
      oldest_id == SeqMin(ids_of(page_posts))
      guard == before # NoCursor /\ oldest_id >= before
      stop == \/ page_posts = <<>>
              \/ guard
              \/ d.new_in_page = 0
              \/ limit_reached(Len(d.collected), args.limit)
              \/ loop_exhausted(nfetch + 1, args.max_pages)
  IN /\ nfetch' = nfetch + 1
     /\ reqs' = Append(reqs, url_cursor(before))
     /\ pagesGot' = Append(pagesGot, page)
     /\ seen' = d.seen
     /\ collected' = d.collected
     /\ before' = IF page_posts = <<>> \/ guard THEN before ELSE oldest_id
     /\ IF stop
        THEN /\ posts' = take(sort_desc(d.collected), args.limit)
             /\ pc' = "merge"
        ELSE /\ posts' = posts
             /\ pc' = "fetch"

\* the request of one page and the iteration on it; the channel serves the same
\* page for the same cursor until it changes
FetchFrom(P) ==
  /\ pc = "fetch"
  /\ \E page \in P :
       /\ served[url_cursor(before)] \in {Unset, page}
       /\ served' = [served EXCEPT ![url_cursor(before)] = page]
       /\ FetchPage(page)
  /\ UNCHANGED <<args, content, disk, tmp, existing, out_posts, tcalls, feed, run, hist,
                 now, generated_at_utc, answers, attempts, translated>>

FetchStep == FetchFrom(Pages)

\* a main that catches the exception and goes on to write what it has
propagate_caught == "write"

\* main has no try/except around fetch_latest_posts and build_feed: an
\* exception raised in them ends the process
propagate == "aborted"

\* http_get raises (requests error, HTTP error status): nothing catches it
FetchFail ==
  /\ pc = "fetch"
  /\ pc' = propagate
  /\ nfetch' = nfetch + 1
  /\ reqs' = Append(reqs, url_cursor(before))
  /\ UNCHANGED <<args, content, served, disk, tmp, existing, before, seen, collected,
                 pagesGot, posts, out_posts, tcalls, feed, run, hist,
                 now, generated_at_utc, answers, attempts, translated>>

\* The channel changes: posts arrive or go, so any cursor may serve a new page
SourceChange ==
  /\ \E c \in Cursors : served[c] # Unset
  /\ served' = [c \in Cursors |-> Unset]
  /\ hist' = [hist EXCEPT !.changed = TRUE]
  /\ UNCHANGED <<pc, args, content, disk, tmp, existing, before, seen, collected, nfetch,
                 reqs, pagesGot, posts, out_posts, tcalls, feed, run,
                 now, generated_at_utc, answers, attempts, translated>>

NoHist ==
  [prev |-> <<>>, prev_done |-> FALSE, changed |-> FALSE, disk0 |-> Absent, first |-> <<>>]

\* no backend call has been answered
NoAnswers == [i \in Ids |-> <<>>]

Args(l, m, t, k, a, mo, ch) ==
  [limit |-> l, max_pages |-> m, translator |-> t, has_key |-> k, argos_ok |-> a,
   openai_model |-> mo, channel_ok |-> ch]

\* fetch_latest_posts called with any limit >= 1 and max_pages >= 1
InitFetch ==
  /\ pc = "fetch"
  /\ \E l \in 1..MaxLimit, m \in 1..MaxPages :
       args = Args(l, m, "none", FALSE, FALSE, "gpt-5.2", TRUE)
  /\ content = InitContent
  /\ served = [c \in Cursors |-> Unset]
  /\ disk = Absent /\ tmp = Absent /\ existing = <<>>
  /\ before = NoCursor /\ seen = {} /\ collected = <<>>
  /\ nfetch = 0 /\ reqs = <<>> /\ pagesGot = <<>>
  /\ posts = <<>> /\ out_posts = <<>> /\ tcalls = <<>> /\ feed = <<>>
  /\ run = 1 /\ hist = NoHist
  /\ now = 0 /\ generated_at_utc = <<>> /\ answers = NoAnswers /\ attempts = 0
  /\ translated = {}

\* the channel changes while fetch_latest_posts is at work
FetchSourceChange == pc = "fetch" /\ SourceChange

FetchNext == FetchStep \/ FetchFail \/ FetchSourceChange

FetchSpec == InitFetch /\ [][FetchNext]_vars

\* the page request returns or raises within its timeout
FairFetchSpec == FetchSpec /\ WF_vars(FetchStep \/ FetchFail)

----------------------------------------------------------------------------
(* build_feed *)

OPENAI_PROMPT_VERSION == "pro_editorial_translator_v1"

\* what existing.get(...) yields for every field of a missing prior entry
NoEntry ==
  [id |-> NoCursor, date_utc |-> None, hash |-> None, translation_key |-> None,
   text_ru |-> None, images |-> <<>>, title_en |-> None, text_en |-> None]

\* JSON documents a feed file may hold that write_json never wrote: text that
\* is no JSON, a top-level value that is no object (an array, a string, a
\* number, null), an object whose "posts" is no list; and an entry of "posts"
\* that is no object.  A document is a sequence of records: these, or the
\* entries of "posts"; the empty sequence is also the object without "posts".
Unparseable == << [garbage |-> TRUE] >>
NotObject == << [top |-> "array"] >>
PostsNotList == << [posts |-> "string"] >>
NotDict == [scalar |-> 0]

\* existing_feed.get exists: the loaded value is a dict
IsObject(doc) == doc # NotObject

\* existing_feed.get("posts") if isinstance(existing_feed.get("posts"), list) else []
existing_posts(doc) == IF doc = PostsNotList THEN <<>> ELSE doc

\* isinstance(p, dict), and p.get("id") is the id
IsDict(e) == "id" \in DOMAIN e

\* existing_by_id.get(str(p.message_id), {}): entries that are no objects are
\* skipped, and a later entry of the prior feed replaces an earlier one with
\* the same id
existing_by_id(ex, id) ==
  LET hits == {i \in 1..Len(ex) : IsDict(ex[i]) /\ ex[i].id = id}
  IN IF hits = {} THEN NoEntry
     ELSE ex[CHOOSE i \in hits : \A j \in hits : j <= i]

\* "openai" if os.environ.get("OPENAI_API_KEY", "").strip() else "argos", for "auto"
translator_effective(translator, has_key) ==
  IF translator = "auto" THEN (IF has_key THEN "openai" ELSE "argos") ELSE translator

\* f"openai:{openai_model}:{OPENAI_PROMPT_VERSION}" for the hosted backend, else
\* the backend's name
translation_key(te, openai_model) ==
  IF te = "openai" THEN <<"openai", openai_model, OPENAI_PROMPT_VERSION>> ELSE <<te>>

\* a reuse test that forgets the translation key
reuse_translation_anykey(e, p, tk) ==
  /\ IsStr(e.hash) /\ e.hash = content_hash(p)
  /\ IsStr(e.text_en) /\ Strip(e.text_en) # <<>>

\* a reuse test that never holds
reuse_translation_never(e, p, tk) == FALSE

reuse_translation(e, p, tk) ==
  /\ IsStr(e.hash) /\ e.hash = content_hash(p)
  /\ IsStr(e.text_en) /\ Strip(e.text_en) # <<>>
  /\ IsStr(e.translation_key) /\ e.translation_key = tk

reuse_title(e, p) ==
  /\ IsStr(e.hash) /\ e.hash = content_hash(p)
  /\ IsStr(e.title_en) /\ Strip(e.title_en) # <<>>

\* a mode test that never sees "none"
translation_disabled_never(te) == FALSE

\* translator_effective == "none"
translation_disabled(te) == te = "none"

\* the parts translate_ru_to_en_argos hands to the backend, one call each
argos_parts(text_ru) ==
  SelectNonEmpty([i \in 1..Len(SplitParas(Strip(text_ru))) |->
                    Strip(SplitParas(Strip(text_ru))[i])])

\* a hosted backend that looks for its credential before it looks at the text
plan_keyfirst(p, e, te, tk, has_key) ==
  IF translation_disabled(te) THEN [kind |-> "value", title_en |-> <<>>, text_en |-> <<>>]
  ELSE IF reuse_translation(e, p, tk)
  THEN [kind |-> "value",
        title_en |-> IF reuse_title(e, p) THEN e.title_en ELSE <<>>,
        text_en |-> e.text_en]
  ELSE IF te = "openai"
  THEN (IF ~has_key THEN [kind |-> "raise"]
        ELSE IF Strip(p.text_ru) = <<>>
        THEN [kind |-> "value", title_en |-> <<>>, text_en |-> <<>>]
        ELSE [kind |-> "openai"])
  ELSE (IF Strip(p.text_ru) = <<>>
        THEN [kind |-> "value", title_en |-> <<>>, text_en |-> <<>>]
        ELSE [kind |-> "argos"])

\* What the body of the loop of build_feed does for post p before it emits the
\* entry: "value" (no backend call), or a call of one of the two backends.
plan(p, e, te, tk, has_key) ==
  IF translation_disabled(te) THEN [kind |-> "value", title_en |-> <<>>, text_en |-> <<>>]
  ELSE IF reuse_translation(e, p, tk)
  THEN [kind |-> "value",
        title_en |-> IF reuse_title(e, p) THEN e.title_en ELSE <<>>,
        text_en |-> e.text_en]
  ELSE IF te = "openai"
  THEN (IF Strip(p.text_ru) = <<>>
        THEN [kind |-> "value", title_en |-> <<>>, text_en |-> <<>>]
        ELSE IF ~has_key THEN [kind |-> "raise"]
        ELSE [kind |-> "openai"])
  ELSE (IF Strip(p.text_ru) = <<>>
        THEN [kind |-> "value", title_en |-> <<>>, text_en |-> <<>>]
        ELSE [kind |-> "argos"])

\* what a backend may answer to one call
RawResults == { <<SP>>, <<"x", NL>> }

\* an entry that dates a post without a date with the time of the run
Entry_stamped(p, tk, title_en, text_en) ==
  [id |-> p.message_id, date_utc |-> IF IsStr(p.date_utc) THEN p.date_utc ELSE <<now>>,
   hash |-> content_hash(p),
   translation_key |-> tk, text_ru |-> p.text_ru, images |-> p.images,
   title_en |-> title_en, text_en |-> text_en]

Entry(p, tk, title_en, text_en) ==
  [id |-> p.message_id, date_utc |-> p.date_utc, hash |-> content_hash(p),
   translation_key |-> tk, text_ru |-> p.text_ru, images |-> p.images,
   title_en |-> title_en, text_en |-> text_en]

Times(x, n) == [i \in 1..n |-> x]

\* the post the loop of build_feed is at, and what it looks up for it
cur_post == posts[Len(out_posts) + 1]
cur_te == translator_effective(args.translator, args.has_key)
cur_tk == translation_key(cur_te, args.openai_model)
cur_existing == existing_by_id(existing_posts(existing), cur_post.message_id)
cur_plan == plan(cur_post, cur_existing, cur_te, cur_tk, args.has_key)

\* fetch_latest_posts has returned: its locals, and the record of its requests,
\* are gone
FetchGone ==
  /\ before' = NoCursor /\ seen' = {} /\ collected' = <<>>
  /\ reqs' = <<>> /\ pagesGot' = <<>>

MergeFrame ==
  /\ FetchGone
  /\ UNCHANGED <<args, content, served, disk, tmp, existing, nfetch, posts, feed, run, hist,
                 now, generated_at_utc>>

\* a translation a backend returned: the post whose text it was given, the
\* key of the configuration it ran under, and the text_en made of its answer
Made(p, tk, text_en) ==
  [id |-> p.message_id, hash |-> content_hash(p), text_ru |-> p.text_ru,
   translation_key |-> tk, text_en |-> text_en]

\* one iteration of the loop of build_feed that calls no backend
MergeValue ==
  /\ pc = "merge" /\ IsObject(existing) /\ Len(out_posts) < Len(posts)
  /\ cur_plan.kind = "value"
  /\ out_posts' = Append(out_posts, Entry(cur_post, cur_tk, cur_plan.title_en, cur_plan.text_en))
  /\ UNCHANGED <<pc, tcalls, answers, attempts, translated>>
  /\ MergeFrame

\* one iteration that calls the hosted backend: the title stays blank
MergeOpenai ==
  /\ pc = "merge" /\ IsObject(existing) /\ Len(out_posts) < Len(posts)
  /\ cur_plan.kind = "openai"
  /\ \E content_raw \in RawResults :
       /\ answers[cur_post.message_id] \in {<<>>, <<content_raw>>}
       /\ answers' = [answers EXCEPT ![cur_post.message_id] = <<content_raw>>]
       /\ out_posts' = Append(out_posts, Entry(cur_post, cur_tk, <<>>, Strip(content_raw)))
       /\ translated' = translated \cup {Made(cur_post, cur_tk, Strip(content_raw))}
  /\ tcalls' = Append(tcalls, cur_post.message_id)
  /\ attempts' = 0
  /\ UNCHANGED pc
  /\ MergeFrame

\* one iteration that calls the offline backend, once for each part of the text
MergeArgos ==
  /\ pc = "merge" /\ IsObject(existing) /\ Len(out_posts) < Len(posts)
  /\ cur_plan.kind = "argos" /\ args.argos_ok
  /\ LET parts == argos_parts(cur_post.text_ru)
     IN /\ \E out_parts \in [1..Len(parts) -> RawResults] :
             /\ answers[cur_post.message_id] \in {<<>>, out_parts}
             /\ answers' = [answers EXCEPT ![cur_post.message_id] = out_parts]
             /\ out_posts' = Append(out_posts,
                               Entry(cur_post, cur_tk, <<>>, Strip(Join(<<NL, NL>>, out_parts))))
             /\ translated' = translated \cup
                  {Made(cur_post, cur_tk, Strip(Join(<<NL, NL>>, out_parts)))}
        /\ tcalls' = tcalls \o Times(cur_post.message_id, Len(parts))
  /\ UNCHANGED <<pc, attempts>>
  /\ MergeFrame

\* build_feed starts on a loaded value that is no dict: existing_feed.get
\* raises AttributeError, which nothing catches
MergeBadFeed ==
  /\ pc = "merge" /\ ~IsObject(existing)
  /\ pc' = propagate
  /\ UNCHANGED <<out_posts, tcalls, answers, attempts, translated>>
  /\ MergeFrame

\* translate_and_format_ru_to_en_openai raises without a credential, and
\* ensure_argos_ru_en_installed without the library (argostranslate is None);
\* main has returned 2 before it calls build_feed in these environments, so no
\* run of the script takes this step
MergeRaise ==
  /\ pc = "merge" /\ IsObject(existing) /\ Len(out_posts) < Len(posts)
  /\ \/ cur_plan.kind = "raise"
     \/ cur_plan.kind = "argos" /\ ~args.argos_ok
  /\ pc' = "aborted"
  /\ UNCHANGED <<out_posts, tcalls, answers, attempts, translated>>
  /\ MergeFrame

\* openai_text: a "gpt-5" model goes to openai_responses_text, whose loop
\* "for attempt in range(3)" posts the request up to three times; any other
\* model goes to openai_chat_completion, which posts it once
max_attempts(model) == IF model = "gpt-5.2" THEN 3 ELSE 1

\* requests.post raises ReadTimeout or ConnectionError in a call of the hosted
\* backend: when an attempt is left the loop sleeps and goes on, else the
\* exception leaves the call, build_feed and main
OpenaiTimeout ==
  /\ pc = "merge" /\ IsObject(existing) /\ Len(out_posts) < Len(posts)
  /\ cur_plan.kind = "openai"
  /\ attempts' = attempts + 1
  /\ translated' = translated
  /\ IF attempts + 1 < max_attempts(args.openai_model)
     THEN UNCHANGED <<pc, tcalls>>
     ELSE /\ pc' = propagate
          /\ tcalls' = Append(tcalls, cur_post.message_id)
  /\ UNCHANGED <<out_posts, answers>>
  /\ MergeFrame

\* the backend call fails otherwise (an HTTP error status, a response that is
\* no JSON or lacks a field, an error of the offline backend): the exception
\* leaves build_feed and main
MergeFail ==
  /\ pc = "merge" /\ IsObject(existing) /\ Len(out_posts) < Len(posts)
  /\ \/ cur_plan.kind = "openai"
     \/ cur_plan.kind = "argos" /\ args.argos_ok
  /\ pc' = propagate
  /\ tcalls' = Append(tcalls, cur_post.message_id)
  /\ UNCHANGED <<out_posts, answers, attempts, translated>>
  /\ MergeFrame

\* build_feed returns the feed: the entries, and the clock reading of
\* utc_now_iso() as "generated_at_utc"
MergeReturn ==
  /\ pc = "merge" /\ IsObject(existing) /\ Len(out_posts) = Len(posts)
  /\ feed' = out_posts
  /\ generated_at_utc' = <<now>>
  /\ pc' = "write"
  /\ FetchGone
  /\ UNCHANGED <<args, content, served, disk, tmp, existing, nfetch, posts, out_posts,
                 tcalls, run, hist, now, answers, attempts, translated>>

----------------------------------------------------------------------------
(* build_feed on any prior feed *)

\* the configurations with which main reaches build_feed: main has returned 2
\* when the effective backend lacks its credential or its library
\* a main that does not look for the offline library
Reaches_nolib(a) ==
  /\ a.channel_ok
  /\ translator_effective(a.translator, a.has_key) = "openai" => a.has_key

Reaches(a) ==
  /\ a.channel_ok
  /\ translator_effective(a.translator, a.has_key) = "openai" => a.has_key
  /\ translator_effective(a.translator, a.has_key) = "argos" => a.argos_ok

\* The command lines and environments of a run.  A field the run never reads
\* keeps one value: the model name without the hosted backend, the library
\* without the offline one, the credential with "argos" and "none", and all of
\* them with an invalid channel.  limit and max_pages are the largest of the model.
RunArgs ==
  {x \in {Args(MaxLimit, MaxPages, t, k, a, mo, ch) :
            t \in Translators, k \in BOOLEAN, a \in BOOLEAN, mo \in Models, ch \in BOOLEAN} :
     LET te == translator_effective(x.translator, x.has_key)
     IN /\ te # "openai" => x.openai_model = "gpt-5.2"
        /\ te # "argos" => x.argos_ok
        /\ x.translator \in {"argos", "none"} => ~x.has_key
        /\ ~x.channel_ok => x.translator = "none"}

\* sequences of posts as fetch_latest_posts returns them: ids strictly descending
FreshPosts(n) ==
  {ps \in SeqsUpTo({TgPost(i, Contents[c]) : i \in Ids, c \in 1..NContents}, n) :
     \A i \in 1..(Len(ps) - 1) : ps[i].message_id > ps[i + 1].message_id}

\* entries of a prior feed file, written by any earlier version or by hand
PriorEntries ==
  {[id |-> i, date_utc |-> None, hash |-> h, translation_key |-> k,
    text_ru |-> <<>>, images |-> <<>>, title_en |-> t, text_en |-> x] :
     i \in Ids,
     h \in {content_hash(Contents[c]) : c \in 1..NContents},
     k \in {<<"none">>, <<"argos">>, <<"openai", "gpt-5.2", OPENAI_PROMPT_VERSION>>, None},
     t \in {<<>>, <<"T">>},
     x \in {<<SP>>, <<"y">>}}

\* an entry with the id of e and no other usable field
Stub(e) == [NoEntry EXCEPT !.id = e.id]

\* prior feeds: empty, one entry, or an entry that follows a stub with its id
PriorFeeds ==
  {<<>>} \cup {<<e>> : e \in PriorEntries}
         \cup {<<Stub(e), e>> : e \in PriorEntries}

\* what load_existing_feed may return for a file write_json never wrote
ForeignFeeds == {NotObject, PostsNotList, <<NotDict>>}

InitMerge ==
  /\ pc = "merge"
  /\ args \in {a \in RunArgs : Reaches(a)}
  /\ posts \in FreshPosts(MaxPosts)
  /\ existing \in PriorFeeds \cup ForeignFeeds
  /\ content = InitContent
  /\ served = [c \in Cursors |-> Unset]
  /\ disk = Absent /\ tmp = Absent
  /\ before = NoCursor /\ seen = {} /\ collected = <<>>
  /\ nfetch = 0 /\ reqs = <<>> /\ pagesGot = <<>>
  /\ out_posts = <<>> /\ tcalls = <<>> /\ feed = <<>>
  /\ run = 1 /\ hist = NoHist
  /\ now = 0 /\ generated_at_utc = <<>> /\ answers = NoAnswers /\ attempts = 0
  /\ translated = {}

MergeNext ==
  \/ MergeBadFeed
  \/ MergeValue \/ MergeOpenai \/ MergeArgos \/ MergeFail \/ MergeReturn

MergeSpec == InitMerge /\ [][MergeNext]_vars

----------------------------------------------------------------------------
(* build_feed called in any environment, also without credential or library *)

InitBlank ==
  /\ pc = "merge"
  /\ args \in {a \in RunArgs : a.channel_ok}
  /\ posts \in FreshPosts(MaxPosts)
  /\ existing \in {<<>>} \cup {<<e>> : e \in {x \in PriorEntries : x.id = MaxId}}
  /\ content = InitContent
  /\ served = [c \in Cursors |-> Unset]
  /\ disk = Absent /\ tmp = Absent
  /\ before = NoCursor /\ seen = {} /\ collected = <<>>
  /\ nfetch = 0 /\ reqs = <<>> /\ pagesGot = <<>>
  /\ out_posts = <<>> /\ tcalls = <<>> /\ feed = <<>>
  /\ run = 1 /\ hist = NoHist
  /\ now = 0 /\ generated_at_utc = <<>> /\ answers = NoAnswers /\ attempts = 0
  /\ translated = {}

BlankNext ==
  \/ MergeValue \/ MergeOpenai \/ MergeArgos \/ MergeRaise \/ MergeFail \/ MergeReturn

BlankSpec == InitBlank /\ [][BlankNext]_vars

----------------------------------------------------------------------------
(* build_feed with the hosted backend and a network that may time out *)

InitRetry ==
  /\ pc = "merge"
  /\ args \in {a \in RunArgs : Reaches(a) /\ a.translator = "openai"}
  /\ posts \in FreshPosts(MaxPosts)
  /\ existing = <<>>
  /\ content = InitContent
  /\ served = [c \in Cursors |-> Unset]
  /\ disk = Absent /\ tmp = Absent
  /\ before = NoCursor /\ seen = {} /\ collected = <<>>
  /\ nfetch = 0 /\ reqs = <<>> /\ pagesGot = <<>>
  /\ out_posts = <<>> /\ tcalls = <<>> /\ feed = <<>>
  /\ run = 1 /\ hist = NoHist
  /\ now = 0 /\ generated_at_utc = <<>> /\ answers = NoAnswers /\ attempts = 0
  /\ translated = {}

RetryNext ==
  \/ MergeValue \/ MergeOpenai \/ OpenaiTimeout \/ MergeFail \/ MergeReturn

RetrySpec == InitRetry /\ [][RetryNext]_vars

----------------------------------------------------------------------------
(* content_hash, as build_feed computes it for the "hash" of each entry *)

\* texts as extract_text_ru returns them: stripped, line breaks inside kept
HashTexts == { <<>>, <<"a">>, <<"b">>, <<"a", NL, NL, "c">> }

\* dates as extract_date_utc returns them: None or a non-empty string
HashDates == { None, <<"d">>, <<"e">> }

\* image addresses as extract_image_urls returns them: the attribute text
\* after the scheme, which is any text, line breaks included
HashUrls == { <<"c">>, <<"c", NL, "c">> }

\* lists without repetition, as extract_image_urls leaves them
HashImages ==
  {us \in SeqsUpTo(HashUrls, MaxImages) :
     \A i, j \in 1..Len(us) : i # j => us[i] # us[j]}

\* contents of the posts parse_preview_html keeps: not both text and images empty
HashContents ==
  {c \in [text_ru : HashTexts, date_utc : HashDates, images : HashImages] :
     c.text_ru # <<>> \/ c.images # <<>>}

\* build_feed on two posts with any of these contents and no prior feed
InitHash ==
  /\ pc = "merge"
  /\ args \in {a \in RunArgs : Reaches(a)}
  /\ \E c1, c2 \in HashContents : posts = <<TgPost(MaxId, c1), TgPost(0, c2)>>
  /\ existing = <<>>
  /\ content = InitContent
  /\ served = [c \in Cursors |-> Unset]
  /\ disk = Absent /\ tmp = Absent
  /\ before = NoCursor /\ seen = {} /\ collected = <<>>
  /\ nfetch = 0 /\ reqs = <<>> /\ pagesGot = <<>>
  /\ out_posts = <<>> /\ tcalls = <<>> /\ feed = <<>>
  /\ run = 1 /\ hist = NoHist
  /\ now = 0 /\ generated_at_utc = <<>> /\ answers = NoAnswers /\ attempts = 0
  /\ translated = {}

HashNext == MergeValue \/ MergeOpenai \/ MergeArgos \/ MergeFail \/ MergeReturn

HashSpec == InitHash /\ [][HashNext]_vars

----------------------------------------------------------------------------
(* build_feed twice on the same inputs *)

\* the value build_feed returned: source and channel are the same in all runs
Returned == [generated_at_utc |-> generated_at_utc, posts |-> feed]

\* datetime.now(): a second passes
Tick ==
  /\ now < MaxClock
  /\ now' = now + 1
  /\ UNCHANGED <<pc, args, content, served, disk, tmp, existing, before, seen, collected,
                 nfetch, reqs, pagesGot, posts, out_posts, tcalls, feed, run, hist,
                 generated_at_utc, answers, attempts, translated>>

\* time passes after build_feed has returned
DetTick == pc = "write" /\ Tick

\* build_feed is called once more with the arguments of the call that has
\* returned; the backend answers each post as it did
Again ==
  /\ pc = "write" /\ hist.first = <<>>
  /\ hist' = [hist EXCEPT !.first = <<Returned>>]
  /\ pc' = "merge"
  /\ out_posts' = <<>> /\ tcalls' = <<>> /\ feed' = <<>> /\ generated_at_utc' = <<>>
  /\ UNCHANGED <<args, content, served, disk, tmp, existing, before, seen, collected,
                 nfetch, reqs, pagesGot, posts, run, now, answers, attempts, translated>>

\* the prior feeds of these calls
DetFeeds ==
  {<<>>} \cup ForeignFeeds
         \cup {<<e>> : e \in {x \in PriorEntries : x.id = MaxId /\ x.title_en = <<"T">>}}

InitDet ==
  /\ pc = "merge"
  /\ args \in {a \in RunArgs : Reaches(a)}
  /\ posts \in FreshPosts(MaxPosts)
  /\ existing \in DetFeeds
  /\ content = InitContent
  /\ served = [c \in Cursors |-> Unset]
  /\ disk = Absent /\ tmp = Absent
  /\ before = NoCursor /\ seen = {} /\ collected = <<>>
  /\ nfetch = 0 /\ reqs = <<>> /\ pagesGot = <<>>
  /\ out_posts = <<>> /\ tcalls = <<>> /\ feed = <<>>
  /\ run = 1 /\ hist = NoHist
  /\ now = 0 /\ generated_at_utc = <<>> /\ answers = NoAnswers /\ attempts = 0
  /\ translated = {}

DetNext ==
  \/ MergeBadFeed
  \/ MergeValue \/ MergeOpenai \/ MergeArgos \/ MergeFail \/ MergeReturn
  \/ DetTick \/ Again

DetSpec == InitDet /\ [][DetNext]_vars

----------------------------------------------------------------------------
(* write_json, load_existing_feed and main *)

\* json.dump writes the document piece by piece: one piece for each entry and
\* the closing piece; a file holds the first `written` pieces of `data`
Pieces(data) == Len(data) + 1

File(data, written) == [kind |-> "file", data |-> data, written |-> written]

Complete(f) == f.kind = "file" /\ f.written = Pieces(f.data)

\* load_existing_feed: json.load of a missing or cut file, or of text that is
\* no JSON, raises, and {} is returned; of a whole file it yields the value
\* the document denotes, whatever its type
load_existing_feed(f) == IF Complete(f) /\ f.data # Unparseable THEN f.data ELSE <<>>

Running == {"start", "load", "fetch", "merge", "write", "dump"}
Ended == {"done", "exit2", "aborted", "killed"}

RunFrame == UNCHANGED <<args, content, served, before, seen, collected, nfetch, reqs,
                        pagesGot, posts, out_posts, tcalls, run, hist,
                        now, generated_at_utc, answers, attempts, translated>>

\* main up to load_existing_feed: the channel and the backend are validated
MainCheck ==
  /\ pc = "start"
  /\ pc' = IF Reaches(args) THEN "load" ELSE "exit2"
  /\ UNCHANGED <<disk, tmp, existing, feed>>
  /\ RunFrame

MainLoad ==
  /\ pc = "load"
  /\ existing' = load_existing_feed(disk)
  /\ pc' = "fetch"
  /\ UNCHANGED <<disk, tmp, feed>>
  /\ RunFrame

\* a write_json that opens the destination itself
write_target_direct == "disk"

\* tmp = path + ".tmp": the file write_json opens and writes
write_target == "tmp"

\* open(tmp, "w"): the file is created or emptied
WriteOpen ==
  /\ pc = "write"
  /\ IF write_target = "tmp"
     THEN tmp' = File(feed, 0) /\ disk' = disk
     ELSE disk' = File(feed, 0) /\ tmp' = tmp
  /\ pc' = "dump"
  /\ UNCHANGED <<existing, feed>>
  /\ RunFrame

\* json.dump and f.write("\n"): the next piece reaches the file
WriteDump ==
  /\ pc = "dump"
  /\ IF write_target = "tmp"
     THEN /\ tmp.written < Pieces(tmp.data)
          /\ tmp' = [tmp EXCEPT !.written = @ + 1] /\ disk' = disk
     ELSE /\ disk.written < Pieces(disk.data)
          /\ disk' = [disk EXCEPT !.written = @ + 1] /\ tmp' = tmp
  /\ UNCHANGED <<pc, existing, feed>>
  /\ RunFrame

\* the file is closed and os.replace(tmp, path) renames it over the destination
WriteReplace ==
  /\ pc = "dump"
  /\ IF write_target = "tmp"
     THEN /\ Complete(tmp)
          /\ disk' = tmp /\ tmp' = Absent
     ELSE /\ Complete(disk)
          /\ UNCHANGED <<disk, tmp>>
  /\ pc' = "done"
  /\ UNCHANGED <<existing, feed>>
  /\ RunFrame

\* the process is killed: its memory is gone, the files stay as they are
Kill ==
  /\ pc \in Running
  /\ pc' = "killed"
  /\ existing' = <<>> /\ before' = NoCursor /\ seen' = {} /\ collected' = <<>>
  /\ nfetch' = 0 /\ reqs' = <<>> /\ pagesGot' = <<>>
  /\ posts' = <<>> /\ out_posts' = <<>> /\ tcalls' = <<>> /\ feed' = <<>>
  /\ generated_at_utc' = <<>> /\ answers' = NoAnswers /\ attempts' = 0
  /\ translated' = translated
  /\ UNCHANGED <<args, content, served, disk, tmp, run, hist, now>>

\* the next run of the script, with command line and environment a, on the
\* files the last one left
NextRunWith(a) ==
  /\ run' = run + 1
  /\ args' = a
  /\ hist' = [prev |-> args, prev_done |-> pc = "done" /\ ~hist.changed,
              changed |-> FALSE, disk0 |-> disk, first |-> <<>>]
  /\ pc' = "start"
  /\ existing' = <<>> /\ before' = NoCursor /\ seen' = {} /\ collected' = <<>>
  /\ nfetch' = 0 /\ reqs' = <<>> /\ pagesGot' = <<>>
  /\ posts' = <<>> /\ out_posts' = <<>> /\ tcalls' = <<>> /\ feed' = <<>>
  /\ generated_at_utc' = <<>> /\ answers' = NoAnswers /\ attempts' = 0
  /\ translated' = translated
  /\ UNCHANGED <<content, served, disk, tmp, now>>

NextRun ==
  /\ pc \in Ended
  /\ run < MaxRuns
  /\ \E a \in RunArgs : NextRunWith(a)

\* the script is run once more, unchanged, right after a run that wrote the feed
Rerun ==
  /\ pc = "done"
  /\ run = 1
  /\ NextRunWith(args)

\* the pages of the channel in the runs of the whole script
PipePages == SeqsUpTo(Ids, MaxPipePageLen)

PipeFetch == FetchFrom(PipePages)

\* the channel changes between two runs
PipeSourceChange == pc \in Ended /\ SourceChange

Init ==
  /\ pc = "start"
  /\ args \in RunArgs
  /\ content = InitContent
  /\ served = [c \in Cursors |-> Unset]
  /\ disk = Absent /\ tmp = Absent /\ existing = <<>>
  /\ before = NoCursor /\ seen = {} /\ collected = <<>>
  /\ nfetch = 0 /\ reqs = <<>> /\ pagesGot = <<>>
  /\ posts = <<>> /\ out_posts = <<>> /\ tcalls = <<>> /\ feed = <<>>
  /\ run = 1 /\ hist = NoHist
  /\ now = 0 /\ generated_at_utc = <<>> /\ answers = NoAnswers /\ attempts = 0
  /\ translated = {}

Next ==
  \/ MainCheck \/ MainLoad \/ PipeFetch \/ FetchFail
  \/ MergeValue \/ MergeOpenai \/ MergeArgos \/ MergeFail \/ MergeReturn
  \/ WriteOpen \/ WriteDump \/ WriteReplace
  \/ Kill \/ NextRun \/ PipeSourceChange

Spec == Init /\ [][Next]_vars

----------------------------------------------------------------------------
(* Runs of the script on a channel whose posts are edited between them *)

\* a post of the channel is edited between two runs: its text, its date or
\* its images change; the pages that list it are served as before
EditPost ==
  /\ pc \in Ended /\ run < MaxRuns
  /\ \E i \in Ids : \E c \in 1..NContents :
       /\ c # content[i]
       /\ content' = [content EXCEPT ![i] = c]
       /\ Cardinality({j \in Ids : content'[j] # InitContent[j]}) <= MaxEdits
  /\ hist' = [hist EXCEPT !.changed = TRUE]
  /\ UNCHANGED <<pc, args, served, disk, tmp, existing, before, seen, collected, nfetch,
                 reqs, pagesGot, posts, out_posts, tcalls, feed, run,
                 now, generated_at_utc, answers, attempts, translated>>

\* posts arrive or go between two runs
StaleSourceChange == pc \in Ended /\ run < MaxRuns /\ SourceChange

\* the first run starts without a feed file, with any command line and
\* environment; each later run may have another
InitStale == Init

StaleNext ==
  \/ MainCheck \/ MainLoad \/ PipeFetch \/ FetchFail
  \/ MergeValue \/ MergeOpenai \/ MergeArgos \/ MergeFail \/ MergeReturn
  \/ WriteOpen \/ WriteDump \/ WriteReplace
  \/ Kill \/ NextRun \/ StaleSourceChange \/ EditPost

StaleSpec == InitStale /\ [][StaleNext]_vars

\* feed files a run may find: written by an earlier version or by hand, with
\* one entry for the newest post
SeedEntries ==
  {e \in PriorEntries : e.id = MaxId /\ e.title_en = <<"T">> /\ e.text_en = <<"y">>}

InitDisks ==
  {Absent} \cup {File(<<e>>, Pieces(<<e>>)) : e \in SeedEntries}
           \cup {File(d, Pieces(d)) : d \in ForeignFeeds \cup {Unparseable}}

\* one run of the script on any of these files, and the same run once more
InitTwice ==
  /\ pc = "start"
  /\ args \in RunArgs
  /\ content = InitContent
  /\ served = [c \in Cursors |-> Unset]
  /\ disk \in InitDisks
  /\ tmp = Absent /\ existing = <<>>
  /\ before = NoCursor /\ seen = {} /\ collected = <<>>
  /\ nfetch = 0 /\ reqs = <<>> /\ pagesGot = <<>>
  /\ posts = <<>> /\ out_posts = <<>> /\ tcalls = <<>> /\ feed = <<>>
  /\ run = 1 /\ hist = [NoHist EXCEPT !.disk0 = disk]
  /\ now = 0 /\ generated_at_utc = <<>> /\ answers = NoAnswers /\ attempts = 0
  /\ translated = {}

TwiceNext ==
  \/ MainCheck \/ MainLoad \/ PipeFetch \/ FetchFail \/ MergeBadFeed
  \/ MergeValue \/ MergeOpenai \/ MergeArgos \/ MergeFail \/ MergeReturn
  \/ WriteOpen \/ WriteDump \/ WriteReplace
  \/ Kill \/ Rerun

TwiceSpec == InitTwice /\ [][TwiceNext]_vars

----------------------------------------------------------------------------
(* Properties of fetch_latest_posts *)

Fetched == UNION {Range(pagesGot[i]) : i \in 1..Len(pagesGot)}

MinOf(a, b) == IF a < b THEN a ELSE b

\* C1: the sequence fetch_latest_posts returns is strictly descending by
\* message id, holds no id twice and is no longer than limit.
C1_Ordered ==
  pc = "merge" =>
    /\ \A i \in 1..(Len(posts) - 1) : posts[i].message_id > posts[i + 1].message_id
    /\ Cardinality(Range(ids_of(posts))) = Len(posts)
    /\ Len(posts) <= args.limit

\* fetch_latest_posts returned after two pages that shared a post and held
\* more distinct posts than limit
C1_Witness ==
  /\ pc = "merge" /\ Len(pagesGot) = 2
  /\ Range(pagesGot[1]) \cap Range(pagesGot[2]) # {}
  /\ Cardinality(Fetched) > args.limit
  /\ Len(posts) = 2

\* C2: fetch_latest_posts never issues more than max_pages page requests and
\* always returns (or raises), whatever pages the source serves.
C2_Terminates ==
  /\ [](nfetch <= args.max_pages)
  /\ <>(pc \in {"merge", "aborted"})

\* the source served the same non-empty page for every request of a call that
\* used all its max_pages > 1 requests
C2_Witness ==
  /\ pc = "merge" /\ args.max_pages > 1 /\ nfetch = args.max_pages
  /\ \A i \in 1..Len(pagesGot) : pagesGot[i] = pagesGot[1] /\ pagesGot[i] # <<>>
  /\ Len(pagesGot) = nfetch

\* C3: the result is exactly the min(limit, D) highest ids among the D distinct
\* ids of the pages fetched, each once.
C3_TopIds ==
  pc = "merge" =>
    LET got == Range(ids_of(posts))
    IN /\ Len(posts) = MinOf(args.limit, Cardinality(Fetched))
       /\ Cardinality(got) = Len(posts)
       /\ got \subseteq Fetched
       /\ \A x \in Fetched \ got : \A y \in got : x < y

\* a post was on both pages, the pages held more distinct posts than limit, and
\* the first page listed its posts oldest first
C3_Witness ==
  /\ pc = "merge" /\ Len(pagesGot) = 2
  /\ Range(pagesGot[1]) \cap Range(pagesGot[2]) # {}
  /\ Cardinality(Fetched) > args.limit
  /\ Len(pagesGot[2]) = 3 /\ pagesGot[2][1] < pagesGot[2][2]
  /\ Fetched \ Range(ids_of(posts)) # {}

----------------------------------------------------------------------------
(* Properties of build_feed *)

\* the prior entry build_feed finds for the i-th fresh post
PriorOf(i) == existing_by_id(existing, posts[i].message_id)

Enabled == cur_te # "none"

NonBlank(v) == IsStr(v) /\ Strip(v) # <<>>

SameHash(i) == IsStr(PriorOf(i).hash) /\ PriorOf(i).hash = content_hash(posts[i])

SameKey(i) == IsStr(PriorOf(i).translation_key) /\ PriorOf(i).translation_key = cur_tk

Invoked(i) == posts[i].message_id \in Range(tcalls)

\* C4: with translation enabled, a post whose prior entry has an equal
\* fingerprint, the run's translation key and a non-blank translated text keeps
\* that text, and the Translator is not invoked for it.
C4_Reuse ==
  pc \in {"merge", "write", "aborted"} /\ Enabled =>
    \A i \in 1..Len(posts) :
      SameHash(i) /\ SameKey(i) /\ NonBlank(PriorOf(i).text_en) =>
        /\ ~Invoked(i)
        /\ i <= Len(out_posts) => out_posts[i].text_en = PriorOf(i).text_en

\* the entry of such a post was emitted in a run with translation enabled
C4_Witness ==
  /\ pc = "write" /\ Enabled
  /\ \E i \in 1..Len(out_posts) :
       /\ SameHash(i) /\ SameKey(i) /\ NonBlank(PriorOf(i).text_en)
       /\ out_posts[i].text_en = <<"y">>
       /\ Strip(posts[i].text_ru) # <<>>

\* C5: with translation enabled, a post with non-blank text whose prior entry is
\* missing, or has another fingerprint or another translation key, or a blank
\* translated text, gets a Translator call; every entry emitted carries the
\* run's translation key.
C5_Retranslate ==
  pc \in {"merge", "write", "aborted"} =>
    \A i \in 1..Len(out_posts) :
      /\ out_posts[i].translation_key = cur_tk
      /\ ( /\ Enabled /\ Strip(posts[i].text_ru) # <<>>
           /\ ~(SameHash(i) /\ SameKey(i) /\ NonBlank(PriorOf(i).text_en)) ) => Invoked(i)

\* a post whose prior entry differs from it in the translation key alone was
\* retranslated, next to a post served from the cache
C5_Witness ==
  /\ pc = "write" /\ Enabled /\ Len(out_posts) = 2
  /\ SameHash(1) /\ NonBlank(PriorOf(1).text_en)
  /\ IsStr(PriorOf(1).translation_key) /\ ~SameKey(1)
  /\ Invoked(1) /\ out_posts[1].translation_key = cur_tk
  /\ PriorOf(2) = NoEntry /\ Invoked(2)

\* C6: with translation enabled, a post whose prior entry has an equal
\* fingerprint and a non-blank title keeps that title even when the prior
\* translation key differs from the run's key.
C6_TitleReused ==
  pc \in {"merge", "write", "aborted"} /\ Enabled =>
    \A i \in 1..Len(out_posts) :
      SameHash(i) /\ NonBlank(PriorOf(i).title_en) /\ ~SameKey(i) =>
        out_posts[i].title_en = PriorOf(i).title_en

\* what the code does there: the title is reused only together with the text
C6_TitleFollowsText ==
  pc \in {"merge", "write", "aborted"} /\ Enabled =>
    \A i \in 1..Len(out_posts) :
      out_posts[i].title_en =
        IF SameHash(i) /\ SameKey(i) /\ NonBlank(PriorOf(i).text_en)
             /\ NonBlank(PriorOf(i).title_en)
        THEN PriorOf(i).title_en ELSE <<>>

\* C7: in mode "none" every entry has an empty title and an empty text and the
\* Translator is never invoked, whatever the prior feed holds.
C7_Disabled ==
  args.translator = "none" =>
    /\ tcalls = <<>>
    /\ \A i \in 1..Len(out_posts) :
         out_posts[i].title_en = <<>> /\ out_posts[i].text_en = <<>>

\* in mode "none" an entry was emitted for a post with text whose prior entry
\* meets every reuse condition, title included
C7_Witness ==
  /\ pc = "write" /\ args.translator = "none"
  /\ \E i \in 1..Len(out_posts) :
       /\ SameHash(i) /\ SameKey(i) /\ NonBlank(PriorOf(i).text_en)
       /\ NonBlank(PriorOf(i).title_en)
       /\ Strip(posts[i].text_ru) # <<>>

----------------------------------------------------------------------------
(* Properties of the whole run *)

Distinct(s) == Cardinality(Range(s)) = Len(s)

entry_ids(es) == [i \in 1..Len(es) |-> es[i].id]

\* C8: the entries build_feed emits have the ids of the fresh posts, in their
\* order, nothing added and nothing left out; the feed it returns on the posts
\* of fetch_latest_posts has no id twice.
C8_SameIds ==
  /\ pc \in {"merge", "write", "dump", "done", "aborted"} =>
       entry_ids(out_posts) = SubSeq(ids_of(posts), 1, Len(out_posts))
  /\ pc \in {"write", "dump", "done"} =>
       entry_ids(feed) = ids_of(posts) /\ Distinct(entry_ids(feed))

\* the ids of the entries of the prior feed
PriorIds ==
  {existing_posts(existing)[i].id :
     i \in {j \in 1..Len(existing_posts(existing)) : IsDict(existing_posts(existing)[j])}}

\* a run wrote a feed of two entries while the prior feed held a post that was
\* not fetched again
C8_Witness ==
  /\ pc = "done" /\ Len(feed) = 2
  /\ PriorIds \ Range(ids_of(posts)) # {}
  /\ Range(ids_of(posts)) \ PriorIds # {}

\* the run follows a complete run with the same command line and environment,
\* and the channel has not changed since that run started
SecondOfTwo == run >= 2 /\ hist.prev_done /\ ~hist.changed /\ hist.prev = args

\* no post with text was left with a blank translation by the run before
AllTranslated(es) ==
  \A i \in 1..Len(es) : Strip(es[i].text_ru) # <<>> => Strip(es[i].text_en) # <<>>

\* C9 as claimed: the second of two runs on an unchanged channel with the same
\* configuration never calls the Translator, whatever the Translator answered
\* in the first.
C9_Idempotent_AnyResult == SecondOfTwo => tcalls = <<>>

\* C9, amended: it never calls the Translator when translation is disabled or
\* the first run left no post with text with a blank translation.
C9_Idempotent ==
  SecondOfTwo /\ (cur_te = "none" \/ AllTranslated(load_existing_feed(hist.disk0)))
    => tcalls = <<>>

\* such a second run rebuilt a feed of two posts, one with text, from the cache
C9_Witness ==
  /\ SecondOfTwo /\ pc = "done" /\ cur_te # "none"
  /\ Len(feed) = 2 /\ tcalls = <<>>
  /\ \E i \in 1..2 : Strip(feed[i].text_en) # <<>>
  /\ feed = load_existing_feed(hist.disk0)

\* C10: at every step of write_json, and after a kill at any of them, the
\* destination is absent or a complete file, and holds what it held when the
\* run started or, once the rename is done, the whole new feed.
C10_CrashSafe ==
  /\ disk = Absent \/ Complete(disk)
  /\ \/ disk = hist.disk0
     \/ pc = "done" /\ disk = File(feed, Pieces(feed))

\* the process was killed in the middle of json.dump of a new feed while the
\* destination held the previous one
C10_Witness ==
  /\ pc = "killed"
  /\ tmp # Absent /\ tmp.written >= 1 /\ ~Complete(tmp)
  /\ Complete(disk) /\ Len(disk.data) >= 1 /\ disk = hist.disk0
  /\ tmp.data # disk.data

----------------------------------------------------------------------------
(* Errors *)

\* the step in which a page request raised: a request was issued and no page
\* came back
FetchRaised == pc = "fetch" /\ nfetch' = nfetch + 1 /\ pagesGot' = pagesGot

\* the step in which a backend call raised: a call was made and no entry emitted
TranslateRaised == pc = "merge" /\ tcalls' # tcalls /\ out_posts' = out_posts

\* C11: a page request or a Translator call that fails ends the run at once,
\* on whatever page or post it happens, and a run ended so has left the
\* destination file as it found it and has written no other file.
C11_AbortClean ==
  /\ [][FetchRaised \/ TranslateRaised => pc' = "aborted" /\ disk' = disk /\ tmp' = tmp]_vars
  /\ [](pc = "aborted" => disk = hist.disk0 /\ tmp = Absent)

\* the Translator failed on the second post of a run that found a feed file,
\* after the entry of the first post had been built
C11_Witness ==
  /\ pc = "aborted" /\ Len(posts) = 2 /\ Len(out_posts) = 1 /\ tcalls # <<>>
  /\ Complete(disk) /\ disk = hist.disk0

\* the configurations main rejects: an invalid channel, the hosted backend
\* without its credential, the offline backend without its library
ConfigError(a) ==
  LET te == IF a.translator = "auto"
            THEN (IF a.has_key THEN "openai" ELSE "argos")
            ELSE a.translator
  IN \/ ~a.channel_ok
     \/ te = "openai" /\ ~a.has_key
     \/ te = "argos" /\ ~a.argos_ok

\* C12: with such a configuration main returns 2 and does nothing else: no page
\* request, no Translator call, the destination file as it was; and main
\* returns 2 for no other configuration.
C12_Exit2 ==
  /\ [](ConfigError(args) => pc \in {"start", "exit2", "killed"})
  /\ [](pc = "exit2" =>
          /\ ConfigError(args)
          /\ nfetch = 0 /\ tcalls = <<>>
          /\ disk = hist.disk0 /\ tmp = Absent)
  /\ [][pc = "start" /\ ConfigError(args) /\ pc' # "killed" => pc' = "exit2"]_vars

\* main returned 2 for mode "auto" without credential and without the offline
\* library, on a valid channel, with a feed file in place
C12_Witness ==
  /\ pc = "exit2" /\ args.channel_ok
  /\ args.translator = "auto" /\ ~args.has_key /\ ~args.argos_ok
  /\ Complete(disk) /\ disk = hist.disk0

\* the feed file the run found is missing or holds one of these documents
OddPrior ==
  \/ hist.disk0 = Absent
  \/ hist.disk0.kind = "file" /\ hist.disk0.data \in ForeignFeeds \cup {Unparseable}

\* C13: a run never fails because of the feed file it finds: when it ends with
\* an exception, a page request or a Translator call has failed.
C13_PriorNeverFatal ==
  pc = "aborted" => reqs # <<>> \/ tcalls # <<>>

\* what the code does: a file that is missing, is no JSON, has a "posts" that
\* is no list or entries that are no objects yields no prior entry for any
\* post, and the run does not fail because of it; a file whose top-level value
\* is no object ends the run in build_feed, after the pages were fetched and
\* before any post is translated or anything is written.
C13_OtherShapes ==
  /\ OddPrior /\ pc \in {"merge", "write", "dump", "done"} /\ IsObject(existing) =>
       \A i \in 1..Len(posts) :
         existing_by_id(existing_posts(existing), posts[i].message_id) = NoEntry
  /\ pc = "aborted" /\ reqs = <<>> /\ tcalls = <<>> =>
       /\ hist.disk0.kind = "file" /\ hist.disk0.data = NotObject
       /\ out_posts = <<>> /\ disk = hist.disk0 /\ tmp = Absent

----------------------------------------------------------------------------
(* Determinism of build_feed *)

\* the second of two calls of build_feed with the same arguments and the same
\* answers of the backend has returned
SecondReturned == pc = "write" /\ hist.first # <<>>

\* C14 as claimed: the two calls return feeds that are equal in every field.
C14_Deterministic == SecondReturned => Returned = hist.first[1]

\* C14, amended: the two calls return the same entries, field for field;
\* "generated_at_utc" is the clock reading of each call, so the feeds are
\* equal in every field only when both calls end within the same second.
C14_SameEntries ==
  SecondReturned =>
    /\ feed = hist.first[1].posts
    /\ hist.first[1].generated_at_utc[1] <= generated_at_utc[1]
    /\ generated_at_utc[1] <= now

\* the second call returned a second after the first one, and both had a post
\* translated by the backend and a post served from the prior feed
C14_Witness ==
  /\ SecondReturned /\ Len(feed) = 2
  /\ generated_at_utc # hist.first[1].generated_at_utc
  /\ Len(tcalls) = 1
  /\ \E i \in 1..2 : SameHash(i) /\ SameKey(i) /\ NonBlank(PriorOf(i).text_en)
                        /\ ~Invoked(i) /\ Strip(posts[i].text_ru) # <<>>

----------------------------------------------------------------------------
(* Properties of content_hash *)

\* the three fields of a post that content_hash reads
Fields(p) == <<p.text_ru, p.date_utc, p.images>>

\* C15: two posts that differ in the text, the date or the list of images have
\* different digest inputs.
C15_Unambiguous ==
  \A i, j \in 1..Len(out_posts) :
    Fields(posts[i]) # Fields(posts[j]) => out_posts[i].hash # out_posts[j].hash

\* t is s with one character replaced, inserted or removed
Replaced(s, t) ==
  Len(s) = Len(t) /\ Cardinality({k \in 1..Len(s) : s[k] # t[k]}) = 1

Inserted(s, t) ==
  /\ Len(t) = Len(s) + 1
  /\ \E k \in 1..Len(t) : s = SubSeq(t, 1, k - 1) \o SubSeq(t, k + 1, Len(t))

OneCharApart(s, t) == Replaced(s, t) \/ Inserted(s, t) \/ Inserted(t, s)

\* q has the two distinct images of p in the other order
Reordered(p, q) ==
  /\ Len(p.images) = 2 /\ p.images[1] # p.images[2]
  /\ q.images = <<p.images[2], p.images[1]>>

\* p and q differ in one of the three fields alone, in one of the three ways
OneChange(p, q) ==
  \/ OneCharApart(p.text_ru, q.text_ru) /\ p.date_utc = q.date_utc /\ p.images = q.images
  \/ p.date_utc # q.date_utc /\ p.text_ru = q.text_ru /\ p.images = q.images
  \/ Reordered(p, q) /\ p.text_ru = q.text_ru /\ p.date_utc = q.date_utc

\* C16: a change of one character of the text, a change of the date, or a swap
\* of two distinct images, the other two fields being equal, changes the
\* digest input; posts equal in the three fields have equal digest inputs,
\* whatever their ids and however they were translated.
C16_Sensitive ==
  \A i, j \in 1..Len(out_posts) :
    /\ OneChange(posts[i], posts[j]) => out_posts[i].hash # out_posts[j].hash
    /\ Fields(posts[i]) = Fields(posts[j]) => out_posts[i].hash = out_posts[j].hash

\* what the code does: the same, for images whose addresses hold no line break
C16_SensitiveOneLine ==
  \A i, j \in 1..Len(out_posts) :
    /\ ( /\ OneChange(posts[i], posts[j])
         /\ \A k \in 1..Len(posts[i].images) : NL \notin Range(posts[i].images[k]) )
       => out_posts[i].hash # out_posts[j].hash
    /\ Fields(posts[i]) = Fields(posts[j]) => out_posts[i].hash = out_posts[j].hash

----------------------------------------------------------------------------
(* Retries of the hosted backend *)

\* the step in which a request of the hosted backend failed for want of a
\* connection or an answer in time
TransientStep == pc = "merge" /\ attempts' = attempts + 1

\* the step in which the call of the hosted backend failed otherwise
OtherFailStep ==
  pc = "merge" /\ tcalls' # tcalls /\ out_posts' = out_posts /\ attempts' = attempts

\* a transient failure is retried until three requests have failed, and the
\* third ends the run; no other failure is retried; an answer ends the retries
RetryRule(retrying) ==
  /\ TransientStep =>
       IF retrying /\ attempts + 1 < 3
       THEN pc' = "merge" /\ tcalls' = tcalls /\ out_posts' = out_posts
       ELSE pc' = "aborted"
  /\ OtherFailStep => pc' = "aborted"
  /\ Len(out_posts') > Len(out_posts) => attempts' = 0 /\ pc' = "merge"

\* C17: the call of the hosted backend follows this rule with every model, and
\* never posts a request after three have failed.
C17_Retries == [](attempts <= 3) /\ [][RetryRule(TRUE)]_vars

\* what the code does: it follows the rule with the "gpt-5" models; with any
\* other model the first transient failure ends the run
C17_RetriesResponses ==
  [](attempts <= 3) /\ [][RetryRule(args.openai_model = "gpt-5.2")]_vars

----------------------------------------------------------------------------
(* Posts without text *)

Blank(i) == Strip(posts[i].text_ru) = <<>>

Cached(i) == SameHash(i) /\ SameKey(i) /\ NonBlank(PriorOf(i).text_en)

\* C18: with translation enabled, a post with blank text that is not served
\* from the prior feed gets an empty title and an empty text and no backend
\* call, and build_feed never fails at such a post, whether or not the
\* credential or the library of the backend is there.
C18_BlankShortCircuit ==
  /\ \A i \in 1..Len(out_posts) :
       Enabled /\ Blank(i) /\ ~Cached(i) =>
         /\ out_posts[i].title_en = <<>> /\ out_posts[i].text_en = <<>>
         /\ ~Invoked(i)
  /\ pc = "aborted" => Len(out_posts) < Len(posts) /\ ~Blank(Len(out_posts) + 1)

\* build_feed returned in an environment without the credential of the hosted
\* backend; its post is an image-only post whose prior entry has the same
\* fingerprint and another key
C18_Witness ==
  /\ pc = "write" /\ cur_te = "openai" /\ ~args.has_key
  /\ Len(out_posts) >= 1 /\ Blank(1)
  /\ SameHash(1) /\ ~SameKey(1) /\ NonBlank(PriorOf(1).text_en)
  /\ out_posts[1].text_en = <<>>

----------------------------------------------------------------------------
(* The pages fetch_latest_posts asks for *)

\* the step in which a page came back, that page, and the cursor of its request
PageStep == pc = "fetch" /\ Len(pagesGot') = Len(pagesGot) + 1
LastPage == pagesGot'[Len(pagesGot')]
LastCursor == reqs'[Len(reqs')]

\* the page is one after which no page is to be fetched
Stops ==
  \/ LastPage = <<>>
  \/ Range(LastPage) \subseteq seen
  \/ LastPage # <<>> /\ LastCursor # NoCursor /\ SeqMin(LastPage) >= LastCursor
  \/ Len(collected') >= args.limit

C20_Cursors ==
  /\ Len(reqs) >= 1 => reqs[1] = NoCursor
  /\ \A k \in 2..Len(reqs) :
       /\ reqs[k] = SeqMin(pagesGot[k - 1])
       /\ k >= 3 => reqs[k] < reqs[k - 1]

\* what the code does: the same when no page holds the id 0; after a page
\* whose lowest id is 0 the request carries no cursor
C20_CursorsNonZero ==
  /\ Len(reqs) >= 1 => reqs[1] = NoCursor
  /\ \A k \in 2..Len(reqs) :
       IF SeqMin(pagesGot[k - 1]) = 0
       THEN reqs[k] = NoCursor
       ELSE /\ reqs[k] = SeqMin(pagesGot[k - 1])
            /\ k >= 3 => reqs[k] < reqs[k - 1]

----------------------------------------------------------------------------
(* Properties of the runs on a channel whose posts are edited *)

\* the entries of the feed file
Persisted == IF disk = Absent THEN <<>> ELSE existing_posts(load_existing_feed(disk))

\* a backend was given the text of entry e under the key of e, and e holds
\* what it answered
FromOwnText(e) ==
  \E m \in translated :
    /\ m.text_ru = e.text_ru
    /\ m.translation_key = e.translation_key
    /\ m.text_en = e.text_en

\* a backend was given the text of a post with the id and the fingerprint of
\* entry e under the key of e, and e holds what it answered
FromOwnHash(e) ==
  \E m \in translated :
    /\ m.id = e.id /\ m.hash = e.hash
    /\ m.translation_key = e.translation_key
    /\ m.text_en = e.text_en

\* C21: starting without a feed file, after any runs between which posts are
\* edited and the configuration changes, every entry of the feed file with a
\* non-empty text_en holds a translation that a backend computed from the
\* text_ru of that entry under the translation_key of that entry.
C21_NoStaleness ==
  \A i \in 1..Len(Persisted) :
    Persisted[i].text_en # <<>> => FromOwnText(Persisted[i])

\* C21, as far as the fingerprint goes: every entry of the feed file with a
\* non-empty text_en holds a translation that a backend computed, under the
\* translation_key of that entry, from a post with the id and the fingerprint
\* of that entry.
C21_NoStalenessPerHash ==
  \A i \in 1..Len(Persisted) :
    Persisted[i].text_en # <<>> => FromOwnHash(Persisted[i])

\* a second run wrote the feed after a post was edited, and took the text_en
\* of an entry from the feed file of the first without a backend call
C21_ReusedAfterEdit ==
  /\ run = 2 /\ pc = "done" /\ content # InitContent
  /\ \E i \in 1..Len(Persisted) :
       /\ Persisted[i].text_en # <<>>
       /\ Persisted[i].id \notin Range(tcalls)

====
